---------------------------- MODULE Spec2Model ----------------------------
(***************************************************************************)
(* rcalc: an interactive left-to-right calculator (src/src/main.rs).       *)
(*                                                                         *)
(* Text is modelled as sequences of one-character strings.  An f64 is      *)
(* modelled by its kind (finite, infinite, NaN), its sign and the digits   *)
(* and decimal exponent of its shortest round-tripping representation,     *)
(* which is what Rust's "{}" and "{:e}" print.                             *)
(***************************************************************************)
EXTENDS Integers, Sequences, FiniteSets, TLC

(***************************************************************************)
(* Bounds of the model.                                                    *)
(***************************************************************************)
\* longest expression given to the tokenizer in SpecTok and SpecEval
MaxLen == 4
\* longest token sequence given to calculate in SpecCalc
MaxTokens == 5
\* largest decimal exponent (in magnitude) of the f64 inputs of SpecFmt
MaxExp == 23
\* largest exponent (in magnitude) of the direct calls of format_with_bigint's
\* digit placement
MaxShift == 4
\* longest numeral given to trim_trailing_zeros in SpecTrim
MaxTrimLen == 6
\* number of lines the terminal delivers before end of input in Spec
MaxLines == 2

(***************************************************************************)
(* Sequences and characters.                                               *)
(***************************************************************************)
DigitChars == <<"0", "1", "2", "3", "4", "5", "6", "7", "8", "9">>

IsDigitChar(c) == \E d \in 1..10 : DigitChars[d] = c

DigitOf(c) == (CHOOSE d \in 1..10 : DigitChars[d] = c) - 1

CharOf(d) == DigitChars[d + 1]

Last(s) == s[Len(s)]

Front(s) == SubSeq(s, 1, Len(s) - 1)

Repeat(x, n) == [i \in 1..n |-> x]

Contains(s, c) == \E i \in 1..Len(s) : s[i] = c

\* index of the first occurrence of c in s, 0 when there is none
Find(s, c) ==
    IF Contains(s, c) THEN CHOOSE i \in 1..Len(s) : s[i] = c /\ \A j \in 1..(i - 1) : s[j] # c
    ELSE 0

\* all sequences over S of length at most n
RECURSIVE SeqsUpTo(_, _)
SeqsUpTo(S, n) ==
    IF n = 0 THEN {<<>>}
    ELSE LET shorter == SeqsUpTo(S, n - 1)
         IN  shorter \cup {Append(s, x) : s \in {t \in shorter : Len(t) = n - 1}, x \in S}

\* the characters of a digit sequence, and back
ToChars(ds) == [i \in 1..Len(ds) |-> CharOf(ds[i])]

ToDigits(cs) == [i \in 1..Len(cs) |-> DigitOf(cs[i])]

AllDigitChars(cs) == \A i \in 1..Len(cs) : IsDigitChar(cs[i])

\* index of the last element of s that is not c, 0 when there is none
LastNot(s, c) ==
    IF \A i \in 1..Len(s) : s[i] = c THEN 0
    ELSE CHOOSE i \in 1..Len(s) : s[i] # c /\ \A j \in (i + 1)..Len(s) : s[j] = c

\* index of the first element of s that is not c, Len(s) + 1 when there is none
FirstNot(s, c) ==
    IF \A i \in 1..Len(s) : s[i] = c THEN Len(s) + 1
    ELSE CHOOSE i \in 1..Len(s) : s[i] # c /\ \A j \in 1..(i - 1) : s[j] = c

\* the element of a one-element set.  The({F(v) : v \in {e}}) is F(e) with e
\* evaluated before F, the way the source passes its arguments by value
The(S) == CHOOSE r \in S : TRUE

\* s.trim_end_matches(c)
trim_end_matches(s, c) == SubSeq(s, 1, LastNot(s, c))

\* the leading zeros of a digit sequence removed (the empty sequence for zero)
StripLeadingZeros(ds) == SubSeq(ds, FirstNot(ds, 0), Len(ds))

StripTrailingZeros(ds) == SubSeq(ds, 1, LastNot(ds, 0))

AllZero(ds) == \A i \in 1..Len(ds) : ds[i] = 0

(***************************************************************************)
(* Arbitrary-precision naturals as decimal digit sequences, most           *)
(* significant digit first (num_bigint::BigInt, and the exact arithmetic   *)
(* behind the float conversions of the standard library).  Scaling by a    *)
(* power of two runs on limbs of seven digits: 2^7 divides 10^7, so the    *)
(* carry into a limb comes from the neighbouring limb alone.               *)
(***************************************************************************)
RECURSIVE Pow(_, _)
Pow(b, n) == IF n = 0 THEN 1 ELSE b * Pow(b, n - 1)

PowersOfTen == [n \in 0..9 |-> Pow(10, n)]

LimbBase == PowersOfTen[7]

\* the digit of ds at position i, zero in front of the sequence
DigitAt(ds, i) == IF i >= 1 THEN ds[i] ELSE 0

\* the limb whose last digit is at position e of ds
LimbAt(ds, e) ==
    ((DigitAt(ds, e - 6) * 1000000 + DigitAt(ds, e - 5) * 100000)
        + (DigitAt(ds, e - 4) * 10000 + DigitAt(ds, e - 3) * 1000))
    + ((DigitAt(ds, e - 2) * 100 + DigitAt(ds, e - 1) * 10) + DigitAt(ds, e))

\* ds on n limbs, for Len(ds) <= 7 * n
ToLimbs(ds, n) == [j \in 1..n |-> LimbAt(ds, Len(ds) - 7 * (n - j))]

FromLimbs(ls) ==
    [i \in 1..(7 * Len(ls)) |-> (ls[(i + 6) \div 7] \div PowersOfTen[6 - ((i - 1) % 7)]) % 10]

\* ls * m for m dividing 2^7, the product fitting the limbs of ls
LimbMul(ls, m) ==
    [i \in DOMAIN ls |->
        ((ls[i] * m) % LimbBase) + (IF i < Len(ls) THEN (ls[i + 1] * m) \div LimbBase ELSE 0)]

\* ls / m for m dividing 2^7, the quotient being whole
LimbDiv(ls, m) ==
    [i \in DOMAIN ls |-> (ls[i] + (IF i > 1 THEN (ls[i - 1] % m) * LimbBase ELSE 0)) \div m]

\* ds + 1
BigInc(ds) ==
    IF LastNot(ds, 9) = 0 THEN <<1>> \o Repeat(0, Len(ds))
    ELSE SubSeq(ds, 1, LastNot(ds, 9) - 1) \o <<ds[LastNot(ds, 9)] + 1>>
             \o Repeat(0, Len(ds) - LastNot(ds, 9))

BigIsOdd(ds) == Len(ds) > 0 /\ Last(ds) % 2 = 1

\* the value of a short digit sequence as an integer
RECURSIVE DigitsToInt(_)
DigitsToInt(ds) == IF Len(ds) = 0 THEN 0 ELSE DigitsToInt(Front(ds)) * 10 + Last(ds)

\* the digits of a natural number (the empty sequence for 0)
RECURSIVE IntToDigits(_)
IntToDigits(n) == IF n = 0 THEN <<>> ELSE Append(IntToDigits(n \div 10), n % 10)


(***************************************************************************)
(* f64 values.  A finite value carries the significant digits (no leading  *)
(* or trailing zero; <<0>> for zero) and the decimal exponent of its       *)
(* shortest round-tripping representation d.ddd x 10^exp.                  *)
(***************************************************************************)
F64Fin(neg, digs, exp) == [kind |-> "fin", neg |-> neg, digs |-> digs, exp |-> exp]

F64Zero(neg) == F64Fin(neg, <<0>>, 0)

F64Inf(neg) == [kind |-> "inf", neg |-> neg, digs |-> <<>>, exp |-> 0]

F64NaN == [kind |-> "nan", neg |-> FALSE, digs |-> <<>>, exp |-> 0]

\* a double the model does not determine: any finite value, zero, an
\* infinity or NaN
F64Unk == [kind |-> "unk", neg |-> FALSE, digs |-> <<>>, exp |-> 0]

\* the double nearest to d.ddd x 10^exp where the model does not determine
\* that double's own shortest digits (more than 15 digits, or a subnormal):
\* it is finite and not zero
F64Near(neg, digs, exp) == [kind |-> "near", neg |-> neg, digs |-> digs, exp |-> exp]

F64IsZero(x) == x.kind = "fin" /\ x.digs = <<0>>

F64Undetermined(x) == x.kind = "unk" \/ x.kind = "near"

F64Neg(x) == IF x.kind = "nan" \/ x.kind = "unk" THEN x ELSE [x EXCEPT !.neg = ~x.neg]

\* x >= 0.0, for a finite x
F64GeZero(x) == ~x.neg \/ F64IsZero(x)

\* x == 1.0 or x == -1.0
F64IsUnit(x) == x.kind = "fin" /\ x.digs = <<1>> /\ x.exp = 0

(***************************************************************************)
(* str::parse::<f64>.  The grammar is                                      *)
(*   Number ::= ( Digit+ | Digit+ '.' Digit* | Digit* '.' Digit+ ) Exp?    *)
(*   Exp    ::= ('e' | 'E') ('+' | '-')? Digit+                            *)
(* after an optional sign (the words inf and nan cannot occur in the texts  *)
(* this program parses).  The result is the nearest double, ties to even:  *)
(*   - inf from 2^1024 - 2^970 = 1.79769313486231580793...e308 upwards,    *)
(*     the midpoint between the largest double and 2^1024;                 *)
(*   - 0 up to 2^-1075 = 2.47032822920623272088...e-324, the midpoint      *)
(*     between 0 and the smallest subnormal;                               *)
(*   - for at most 15 significant digits in the normal range, the double   *)
(*     whose shortest representation is the literal's own digits;          *)
(*   - else the finite non-zero double nearest the literal (F64Near).      *)
(* Both midpoints have more than 20 digits and are compared by their first *)
(* 20: a literal of more than 20 digits that agrees with a midpoint in all *)
(* 20 is not determined (F64Unk).                                          *)
(***************************************************************************)
IsExpMark(c) == c = "e" \/ c = "E"

HasSign(s) == Len(s) > 0 /\ (s[1] = "+" \/ s[1] = "-")

Unsigned(s) == IF HasSign(s) THEN Tail(s) ELSE s

\* index of the first exponent marker, 0 when there is none
ExpMarkPos(s) ==
    IF \E i \in 1..Len(s) : IsExpMark(s[i])
    THEN CHOOSE i \in 1..Len(s) : IsExpMark(s[i]) /\ \A j \in 1..(i - 1) : ~IsExpMark(s[j])
    ELSE 0

\* the text before the exponent marker, without its sign
MantissaText(s) ==
    Unsigned(IF ExpMarkPos(s) = 0 THEN s ELSE SubSeq(s, 1, ExpMarkPos(s) - 1))

ExponentText(s) == IF ExpMarkPos(s) = 0 THEN <<>> ELSE SubSeq(s, ExpMarkPos(s) + 1, Len(s))

IntText(m) == IF Find(m, ".") = 0 THEN m ELSE SubSeq(m, 1, Find(m, ".") - 1)

FracText(m) == IF Find(m, ".") = 0 THEN <<>> ELSE SubSeq(m, Find(m, ".") + 1, Len(m))

ValidMantissaText(m) ==
    /\ AllDigitChars(IntText(m))
    /\ AllDigitChars(FracText(m))
    /\ Len(IntText(m)) + Len(FracText(m)) > 0

ValidExponentText(e) == Len(Unsigned(e)) > 0 /\ AllDigitChars(Unsigned(e))

ValidF64Text(s) ==
    /\ ValidMantissaText(MantissaText(s))
    /\ ExpMarkPos(s) # 0 => ValidExponentText(ExponentText(s))

\* one digit d of a written exponent, read by the f64 parser behind the
\* number acc read so far: taken in while acc is below 65536 (0x10000),
\* skipped from there on
ExponentStep(acc, d) == IF acc < 65536 THEN acc * 10 + d ELSE acc

\* the digits of a written exponent, read from the left
RECURSIVE ExponentDigits(_)
ExponentDigits(ds) ==
    IF Len(ds) = 0 THEN 0 ELSE ExponentStep(ExponentDigits(Front(ds)), Last(ds))

\* the written exponent of a valid f64 literal
LiteralExponent(e) ==
    IF Len(e) > 0 /\ e[1] = "-" THEN -ExponentDigits(ToDigits(Unsigned(e)))
    ELSE ExponentDigits(ToDigits(Unsigned(e)))

\* the decimal exponent of the literal's first significant digit
LiteralExp(s) ==
    LET litMant   == MantissaText(s)
        litAll == ToDigits(IntText(litMant) \o FracText(litMant))
        litLz  == Len(litAll) - Len(StripLeadingZeros(litAll))
    IN  Len(IntText(litMant)) - 1 - litLz + (IF ExpMarkPos(s) = 0 THEN 0 ELSE LiteralExponent(ExponentText(s)))

LiteralDigits(s) ==
    LET litText == MantissaText(s)
    IN  StripTrailingZeros(StripLeadingZeros(ToDigits(IntText(litText) \o FracText(litText))))

LiteralNeg(s) == Len(s) > 0 /\ s[1] = "-"

\* the first 20 digits of 2^1024 - 2^970 (exponent 308): literals from
\* there upwards parse to inf
OverflowMidpoint == <<1, 7, 9, 7, 6, 9, 3, 1, 3, 4, 8, 6, 2, 3, 1, 5, 8, 0, 7, 9>>

\* the first 20 digits of 2^-1075 (exponent -324): literals up to there
\* parse to 0
UnderflowMidpoint == <<2, 4, 7, 0, 3, 2, 8, 2, 2, 9, 2, 0, 6, 2, 3, 2, 7, 2, 0, 8>>

\* the first 20 significant digits of a literal, zeros behind the last
Prefix20(ds) == [i \in 1..20 |-> IF i <= Len(ds) THEN ds[i] ELSE 0]

\* a < b for digit sequences of one length
DigitsLess(a, b) == \E i \in 1..Len(a) : a[i] < b[i] /\ \A j \in 1..(i - 1) : a[j] = b[j]

\* the literal digits ds against a midpoint of the same exponent given by
\* its first 20 digits: "below", "above", or "open" when 20 digits do not
\* decide (both midpoints go on behind their 20th digit)
AgainstMidpoint(ds, mid) ==
    IF DigitsLess(Prefix20(ds), mid) THEN "below"
    ELSE IF DigitsLess(mid, Prefix20(ds)) THEN "above"
    ELSE IF Len(ds) <= 20 THEN "below"
    ELSE "open"

\* where the literal digits ds with exponent exp lie: "inside" the range of
\* the doubles, or against the midpoint at the end they are next to
RangeEnd(ds, exp) ==
    IF exp = 308 THEN AgainstMidpoint(ds, OverflowMidpoint)
    ELSE IF exp = -324 THEN AgainstMidpoint(ds, UnderflowMidpoint)
    ELSE "inside"

\* the double for sign, significant digits and exponent of a literal, side
\* being RangeEnd(ds, exp)
F64Place(neg, ds, exp, side) ==
    IF Len(ds) = 0 THEN F64Zero(neg)
    ELSE IF exp >= 309 \/ (exp = 308 /\ side = "above") THEN F64Inf(neg)
    ELSE IF exp <= -325 \/ (exp = -324 /\ side = "below") THEN F64Zero(neg)
    ELSE IF side = "open" THEN F64Unk
    ELSE IF exp <= -308 \/ Len(ds) > 15 THEN F64Near(neg, ds, exp)
    ELSE F64Fin(neg, ds, exp)

F64OfDigits(neg, ds, exp) == F64Place(neg, ds, exp, RangeEnd(ds, exp))

\* the value of a valid literal
F64OfText(s) == F64OfDigits(LiteralNeg(s), LiteralDigits(s), LiteralExp(s))

\* s.parse::<f64>(): Ok(value) or Err
ParseF64(s) ==
    IF ValidF64Text(s) THEN [ok |-> TRUE, val |-> F64OfText(s)]
    ELSE [ok |-> FALSE, val |-> F64NaN]

(***************************************************************************)
(* f64 arithmetic.  IEEE-754 addition, multiplication and division are     *)
(* exact whenever the operands and the exact result are doubles; the model *)
(* computes those cases, on multiples of 1/Scale held as integers, and the *)
(* cases that IEEE-754 fixes without rounding (zeros, units, infinities,   *)
(* NaN).  The result of any other operation is F64Unk, a double the model  *)
(* does not determine (it may be zero, infinite or NaN as well); every     *)
(* operation on it gives F64Unk again, and the specifications draw only    *)
(* inputs whose result is determined.                                      *)
(***************************************************************************)
Scale == Pow(2, 8)

\* 5^8: one unit of 1/Scale in units of 10^-8
ScaleFive == Pow(5, 8)

IntLimit == Pow(2, 30)

NotModelled == F64Unk

Exactly(v) == v

\* a finite value as an integer number of 1/Scale, when it is one and is small
ToFixed(x) ==
    LET fixLen == Len(x.digs)
        fixPlaces == fixLen - 1 - x.exp      \* decimal places of the last digit
    IN  IF x.kind # "fin" \/ fixLen > 9 \/ fixPlaces > 8 \/ x.exp > 5 THEN [ok |-> FALSE, a |-> 0]
        ELSE IF fixPlaces <= 0
        THEN [ok |-> TRUE, a |-> DigitsToInt(x.digs) * Pow(10, -fixPlaces) * Scale]
        ELSE IF DigitsToInt(x.digs) % Pow(5, fixPlaces) # 0 THEN [ok |-> FALSE, a |-> 0]
        ELSE [ok |-> TRUE, a |-> (DigitsToInt(x.digs) \div Pow(5, fixPlaces)) * Pow(2, 8 - fixPlaces)]

\* the double a / Scale, for 0 < a
FromFixed(neg, a) ==
    LET fxInt  == IntToDigits(a \div Scale)
        fxF    == IntToDigits((a % Scale) * ScaleFive)
        fxFrac == Repeat(0, 8 - Len(fxF)) \o fxF
        fxAll  == fxInt \o fxFrac
        fxLz   == Len(fxAll) - Len(StripLeadingZeros(fxAll))
    IN  F64Fin(neg, StripTrailingZeros(StripLeadingZeros(fxAll)), Len(fxInt) - 1 - fxLz)

FixedInRange(a) == a > 0 /\ a <= 1000000 * Scale

Abs(n) == IF n < 0 THEN -n ELSE n

Signed(x, a) == IF x.neg THEN -a ELSE a

\* left + right
F64Add(x, y) ==
    IF F64Undetermined(x) \/ F64Undetermined(y) THEN F64Unk
    ELSE IF x.kind = "nan" \/ y.kind = "nan" THEN Exactly(F64NaN)
    ELSE IF x.kind = "inf" /\ y.kind = "inf"
    THEN Exactly(IF x.neg = y.neg THEN x ELSE F64NaN)
    ELSE IF x.kind = "inf" THEN Exactly(x)
    ELSE IF y.kind = "inf" THEN Exactly(y)
    ELSE IF F64IsZero(x) /\ F64IsZero(y) THEN Exactly(F64Zero(x.neg /\ y.neg))
    ELSE IF F64IsZero(x) THEN Exactly(y)
    ELSE IF F64IsZero(y) THEN Exactly(x)
    ELSE LET addA == ToFixed(x)
             addB == ToFixed(y)
             addSum == Signed(x, addA.a) + Signed(y, addB.a)
         IN  IF ~addA.ok \/ ~addB.ok THEN NotModelled
             ELSE IF addSum = 0 THEN Exactly(F64Zero(FALSE))
             ELSE IF ~FixedInRange(Abs(addSum)) THEN NotModelled
             ELSE Exactly(FromFixed(addSum < 0, Abs(addSum)))

\* left - right
F64Sub(x, y) == F64Add(x, F64Neg(y))

\* the number of trailing zero bits of a > 0, counted up to 8
RECURSIVE TrailingBits(_, _)
TrailingBits(a, n) ==
    IF n = 8 \/ a % 2 = 1 THEN n ELSE TrailingBits(a \div 2, n + 1)

\* a * b / Scale as <<exact, value>>: the division is split over both factors
FixedMul(a, b) ==
    LET mulI == TrailingBits(a, 0)
        mulP == a \div Pow(2, mulI)
        mulQ == b \div Pow(2, 8 - mulI)
    IN  IF b % Pow(2, 8 - mulI) # 0 \/ mulP > IntLimit \div mulQ THEN <<FALSE, 0>>
        ELSE <<TRUE, mulP * mulQ>>

\* a * Scale / b as <<exact, value>>
FixedDiv(a, b) ==
    LET divJ == TrailingBits(b, 0)
        divP == Pow(2, 8 - divJ)
        divD == b \div Pow(2, divJ)
    IN  IF a > IntLimit \div divP \/ (a * divP) % divD # 0 THEN <<FALSE, 0>>
        ELSE <<TRUE, (a * divP) \div divD>>

\* left * right
F64Mul(x, y) ==
    IF F64Undetermined(x) \/ F64Undetermined(y) THEN F64Unk
    ELSE IF x.kind = "nan" \/ y.kind = "nan" THEN Exactly(F64NaN)
    ELSE IF (x.kind = "inf" /\ F64IsZero(y)) \/ (F64IsZero(x) /\ y.kind = "inf")
    THEN Exactly(F64NaN)
    ELSE IF x.kind = "inf" \/ y.kind = "inf" THEN Exactly(F64Inf(x.neg # y.neg))
    ELSE IF F64IsZero(x) \/ F64IsZero(y) THEN Exactly(F64Zero(x.neg # y.neg))
    ELSE IF F64IsUnit(y) THEN Exactly([x EXCEPT !.neg = (x.neg # y.neg)])
    ELSE IF F64IsUnit(x) THEN Exactly([y EXCEPT !.neg = (x.neg # y.neg)])
    ELSE LET mulA == ToFixed(x)
             mulB == ToFixed(y)
         IN  IF ~mulA.ok \/ ~mulB.ok THEN NotModelled
             ELSE IF ~FixedMul(mulA.a, mulB.a)[1] THEN NotModelled
             ELSE IF ~FixedInRange(FixedMul(mulA.a, mulB.a)[2]) THEN NotModelled
             ELSE Exactly(FromFixed(x.neg # y.neg, FixedMul(mulA.a, mulB.a)[2]))

\* left / right
F64Div(x, y) ==
    IF F64Undetermined(x) \/ F64Undetermined(y) THEN F64Unk
    ELSE IF x.kind = "nan" \/ y.kind = "nan" THEN Exactly(F64NaN)
    ELSE IF (x.kind = "inf" /\ y.kind = "inf") \/ (F64IsZero(x) /\ F64IsZero(y))
    THEN Exactly(F64NaN)
    ELSE IF x.kind = "inf" \/ F64IsZero(y) THEN Exactly(F64Inf(x.neg # y.neg))
    ELSE IF y.kind = "inf" \/ F64IsZero(x) THEN Exactly(F64Zero(x.neg # y.neg))
    ELSE IF F64IsUnit(y) THEN Exactly([x EXCEPT !.neg = (x.neg # y.neg)])
    ELSE IF x.digs = y.digs /\ x.exp = y.exp THEN Exactly(F64Fin(x.neg # y.neg, <<1>>, 0))
    ELSE LET dvA == ToFixed(x)
             dvB == ToFixed(y)
         IN  IF ~dvA.ok \/ ~dvB.ok THEN NotModelled
             ELSE IF ~FixedDiv(dvA.a, dvB.a)[1] THEN NotModelled
             ELSE IF ~FixedInRange(FixedDiv(dvA.a, dvB.a)[2]) THEN NotModelled
             ELSE Exactly(FromFixed(x.neg # y.neg, FixedDiv(dvA.a, dvB.a)[2]))

(***************************************************************************)
(* Tokens and results.                                                     *)
(***************************************************************************)
Number(n) == [type |-> "Number", num |-> n, op |-> ""]

Operator(c) == [type |-> "Operator", num |-> F64Zero(FALSE), op |-> c]

\* no error; and the String of an Err: a format string and its argument
NoErr == [msg |-> "", arg |-> <<>>]

ErrMsg(msg, arg) == [msg |-> msg, arg |-> arg]

IsOperatorChar(c) == c = "+" \/ c = "-" \/ c = "*" \/ c = "/"

IsNumberChar(c) == IsDigitChar(c) \/ c = "." \/ IsExpMark(c)

(***************************************************************************)
(* tokenize: the state of the loop is i, current_num and tokens; status    *)
(* says whether the function is still running or how it returned.          *)
(***************************************************************************)
TokStart == [i |-> 0, current_num |-> <<>>, tokens |-> <<>>, status |-> "running", err |-> NoErr]

\* a variant of TokNumberChar without the look-ahead of lines 67-72: the sign
\* behind an exponent marker is left to the operator branch
TokNumberCharNoLookahead(cs, st) ==
    [st EXCEPT !.current_num = Append(st.current_num, cs[st.i + 1]), !.i = st.i + 1]

\* chars[i] is a digit, a point or an exponent marker
TokNumberChar(cs, st) ==
    LET numC     == cs[st.i + 1]
        numSigns == IsExpMark(numC) /\ st.i + 1 < Len(cs) /\ (cs[st.i + 2] = "+" \/ cs[st.i + 2] = "-")
    IN  IF numSigns
        THEN [st EXCEPT !.current_num = st.current_num \o <<numC, cs[st.i + 2]>>, !.i = st.i + 2]
        ELSE [st EXCEPT !.current_num = Append(st.current_num, numC), !.i = st.i + 1]

\* a variant of TokOperatorChar with a unary minus: a '-' where no number
\* is pending and no token precedes starts a negative literal
TokOperatorCharUnaryMinus(cs, st) ==
    LET umC == cs[st.i + 1]
    IN  IF st.current_num # <<>>
        THEN IF ParseF64(st.current_num).ok
             THEN [st EXCEPT !.tokens = st.tokens \o <<Number(ParseF64(st.current_num).val), Operator(umC)>>,
                             !.current_num = <<>>,
                             !.i = st.i + 1]
             ELSE [st EXCEPT !.status = "err",
                             !.err = ErrMsg("Invalid number: ", st.current_num)]
        ELSE IF umC = "-" /\ st.tokens = <<>>
        THEN [st EXCEPT !.current_num = <<"-">>, !.i = st.i + 1]
        ELSE [st EXCEPT !.tokens = Append(st.tokens, Operator(umC)), !.i = st.i + 1]

\* a variant of TokOperatorChar that finalizes the pending number and drops
\* the operator that ended it
TokOperatorCharDropsOperator(cs, st) ==
    LET doC == cs[st.i + 1]
    IN  IF st.current_num # <<>>
        THEN IF ParseF64(st.current_num).ok
             THEN [st EXCEPT !.tokens = Append(st.tokens, Number(ParseF64(st.current_num).val)),
                             !.current_num = <<>>,
                             !.i = st.i + 1]
             ELSE [st EXCEPT !.status = "err",
                             !.err = ErrMsg("Invalid number: ", st.current_num)]
        ELSE [st EXCEPT !.tokens = Append(st.tokens, Operator(doC)), !.i = st.i + 1]

\* chars[i] is one of + - * /
TokOperatorChar(cs, st) ==
    LET opC == cs[st.i + 1]
    IN  IF st.current_num # <<>>
        THEN IF ParseF64(st.current_num).ok
             THEN [st EXCEPT !.tokens = st.tokens \o <<Number(ParseF64(st.current_num).val), Operator(opC)>>,
                             !.current_num = <<>>,
                             !.i = st.i + 1]
             ELSE [st EXCEPT !.status = "err",
                             !.err = ErrMsg("Invalid number: ", st.current_num)]
        ELSE [st EXCEPT !.tokens = Append(st.tokens, Operator(opC)), !.i = st.i + 1]

\* chars[i] is any other character
TokInvalidChar(cs, st) ==
    [st EXCEPT !.status = "err", !.err = ErrMsg("Invalid character: ", <<cs[st.i + 1]>>)]

\* one iteration of the while loop
TokBody(cs, st) ==
    IF IsNumberChar(cs[st.i + 1]) THEN TokNumberChar(cs, st)
    ELSE IF IsOperatorChar(cs[st.i + 1]) THEN TokOperatorChar(cs, st)
    ELSE TokInvalidChar(cs, st)

\* after the loop: the final number, and the return
TokEnd(st) ==
    IF st.current_num # <<>>
    THEN IF ParseF64(st.current_num).ok
         THEN [st EXCEPT !.tokens = Append(st.tokens, Number(ParseF64(st.current_num).val)),
                         !.status = "ok"]
         ELSE [st EXCEPT !.status = "err", !.err = ErrMsg("Invalid number: ", st.current_num)]
    ELSE [st EXCEPT !.status = "ok"]

RECURSIVE TokRun(_, _)
TokRun(cs, st) ==
    IF st.status # "running" THEN st
    ELSE IF st.i < Len(cs) THEN TokRun(cs, TokBody(cs, st))
    ELSE TokEnd(st)

\* Result<Vec<Token>, String>
tokenize(expr) ==
    LET tokFinal == TokRun(expr, TokStart)
    IN  [ok |-> tokFinal.status = "ok", tokens |-> tokFinal.tokens, err |-> tokFinal.err]

(***************************************************************************)
(* apply_operation and calculate.                                          *)
(***************************************************************************)
\* a variant of apply_operation that divides as IEEE-754 does, by zero too
apply_operation_ieee(left, right, op) ==
    IF op = "+" THEN [ok |-> TRUE, val |-> F64Add(left, right), err |-> NoErr]
    ELSE IF op = "-" THEN [ok |-> TRUE, val |-> F64Sub(left, right), err |-> NoErr]
    ELSE IF op = "*" THEN [ok |-> TRUE, val |-> F64Mul(left, right), err |-> NoErr]
    ELSE IF op = "/" THEN [ok |-> TRUE, val |-> F64Div(left, right), err |-> NoErr]
    ELSE [ok |-> FALSE, val |-> left, err |-> ErrMsg("Invalid operator: ", <<op>>)]

\* the result of a division by a double the model does not determine: the
\* model decides neither between Ok and Err nor the value (ok is no verdict)
NotDetermined == [ok |-> FALSE, val |-> F64Unk, err |-> ErrMsg("(not determined)", <<>>)]

apply_operation(left, right, op) ==
    IF op = "+" THEN [ok |-> TRUE, val |-> F64Add(left, right), err |-> NoErr]
    ELSE IF op = "-" THEN [ok |-> TRUE, val |-> F64Sub(left, right), err |-> NoErr]
    ELSE IF op = "*" THEN [ok |-> TRUE, val |-> F64Mul(left, right), err |-> NoErr]
    ELSE IF op = "/"
    THEN IF right.kind = "unk" THEN NotDetermined
         ELSE IF F64IsZero(right)
         THEN [ok |-> FALSE, val |-> left, err |-> ErrMsg("Division by zero!", <<>>)]
         ELSE [ok |-> TRUE, val |-> F64Div(left, right), err |-> NoErr]
    ELSE [ok |-> FALSE, val |-> left, err |-> ErrMsg("Invalid operator: ", <<op>>)]

\* consumed counts the tokens the for loop has taken
CalcStart ==
    [result |-> F64Zero(FALSE), current_op |-> "+", consumed |-> 0, status |-> "running", err |-> NoErr]

\* a variant of CalcBody that applies the pending operator with its operands
\* exchanged: num <op> result
CalcBodySwapped(t, st) ==
    IF t.type = "Number"
    THEN LET swapped == apply_operation(t.num, st.result, st.current_op)
         IN  IF swapped.ok THEN [st EXCEPT !.result = swapped.val, !.consumed = st.consumed + 1]
             ELSE [st EXCEPT !.consumed = st.consumed + 1, !.status = "err", !.err = swapped.err]
    ELSE [st EXCEPT !.current_op = t.op, !.consumed = st.consumed + 1]

\* one iteration of the for loop, on token t
CalcBody(t, st) ==
    IF t.type = "Number"
    THEN LET applied == apply_operation(st.result, t.num, st.current_op)
         IN  IF applied.ok THEN [st EXCEPT !.result = applied.val, !.consumed = st.consumed + 1]
             ELSE [st EXCEPT !.consumed = st.consumed + 1, !.status = "err", !.err = applied.err]
    ELSE [st EXCEPT !.current_op = t.op, !.consumed = st.consumed + 1]

RECURSIVE CalcRun(_, _)
CalcRun(ts, st) ==
    IF st.status # "running" THEN st
    ELSE IF st.consumed < Len(ts) THEN CalcRun(ts, CalcBody(ts[st.consumed + 1], st))
    ELSE [st EXCEPT !.status = "ok"]

\* Result<f64, String>
calculate(ts) ==
    LET calcFinal == CalcRun(ts, CalcStart)
    IN  [ok |-> calcFinal.status = "ok", val |-> calcFinal.result, err |-> calcFinal.err]

evaluate_expression(expr) ==
    IF tokenize(expr).ok THEN calculate(tokenize(expr).tokens)
    ELSE [ok |-> FALSE, val |-> F64Zero(FALSE), err |-> tokenize(expr).err]

(***************************************************************************)
(* The standard library's float formatting.                                *)
(***************************************************************************)
SignText(x) == IF x.neg THEN <<"-">> ELSE <<>>

\* the decimal text of an integer
IntText10(n) ==
    IF n = 0 THEN <<"0">>
    ELSE (IF n < 0 THEN <<"-">> ELSE <<>>) \o ToChars(IntToDigits(Abs(n)))

\* format!("{}", num) and num.to_string(), for a double the model determines:
\* the shortest digits in positional notation, never with an exponent
Display(x) ==
    IF x.kind = "nan" THEN <<"N", "a", "N">>
    ELSE IF x.kind = "inf" THEN SignText(x) \o <<"i", "n", "f">>
    ELSE LET dispLen == Len(x.digs)
         IN  IF x.exp >= dispLen - 1
             THEN SignText(x) \o ToChars(x.digs) \o Repeat("0", x.exp - (dispLen - 1))
             ELSE IF x.exp >= 0
             THEN SignText(x) \o ToChars(SubSeq(x.digs, 1, x.exp + 1)) \o <<".">>
                              \o ToChars(SubSeq(x.digs, x.exp + 2, dispLen))
             ELSE SignText(x) \o <<"0", ".">> \o Repeat("0", -x.exp - 1) \o ToChars(x.digs)

\* format!("{:e}", num) for a finite double: d.ddde<exp>
LowerExp(x) ==
    SignText(x) \o <<CharOf(x.digs[1])>>
        \o (IF Len(x.digs) > 1 THEN <<".">> \o ToChars(Tail(x.digs)) ELSE <<>>)
        \o <<"e">> \o IntText10(x.exp)

\* s.split('e') of a text with one 'e'
SplitAtE(s) == <<SubSeq(s, 1, Find(s, "e") - 1), SubSeq(s, Find(s, "e") + 1, Len(s))>>

\* the binary exponent of the last mantissa bit of a double in [1, 10)
\* with leading decimal digit d
UlpBits(d) == IF d = 1 THEN 52 ELSE IF d <= 3 THEN 51 ELSE IF d <= 7 THEN 50 ELSE 49

\* ds * 2^n for 49 <= n <= 52 and ds of at most 17 digits (2^49 = 128^7)
BigShiftLeft(ds, n) ==
    StripLeadingZeros(FromLimbs(LimbMul(LimbMul(LimbMul(LimbMul(LimbMul(LimbMul(LimbMul(LimbMul(
        ToLimbs(ds, 5), 128), 128), 128), 128), 128), 128), 128), Pow(2, n - 49))))

\* ds / 2^n for 49 <= n <= 52 and ds of at most 35 digits: the digits of
\* the quotient, the last 56 of them behind the decimal point
BigShiftRight(ds, n) ==
    FromLimbs(LimbDiv(LimbDiv(LimbDiv(LimbDiv(LimbDiv(LimbDiv(LimbDiv(LimbDiv(
        ToLimbs(ds \o Repeat(0, 56), 13), 128), 128), 128), 128), 128), 128), 128), Pow(2, n - 49)))

\* q rounded to nearest, ties to even, given the digits r cut off behind it
RoundHalfEven(q, r) ==
    IF Len(r) = 0 \/ r[1] < 5 THEN q
    ELSE IF r[1] > 5 \/ ~AllZero(Tail(r)) THEN BigInc(q)
    ELSE IF BigIsOdd(q) THEN BigInc(q) ELSE q

\* the double nearest to the decimal d.ddd (digits ds, 1 <= d), as the
\* integer number of its units in the last place 2^-UlpBits
NearestDouble(ds) ==
    LET scaled == BigShiftLeft(ds, UlpBits(ds[1]))
        cut == Len(scaled) - (Len(ds) - 1)
    IN  RoundHalfEven(SubSeq(scaled, 1, cut), SubSeq(scaled, cut + 1, Len(scaled)))

\* k / 2^bits in units of 10^-15, rounded to nearest, ties to even
Round15(k, bits) ==
    LET shifted == BigShiftRight(k \o Repeat(0, 15), bits)
    IN  RoundHalfEven(StripLeadingZeros(SubSeq(shifted, 1, Len(shifted) - 56)),
                      SubSeq(shifted, Len(shifted) - 55, Len(shifted)))

\* format!("{:.15}", mantissa) for a mantissa that "{:e}" printed: zero, or a
\* double in [1, 10) given by its decimal digits.  The double is the one
\* nearest to the digits, and its exact value is printed rounded to 15 places.
FormatFixed15(x) ==
    IF F64IsZero(x) THEN SignText(x) \o <<"0", ".">> \o Repeat("0", 15)
    ELSE The({SignText(x) \o ToChars(SubSeq(rounded, 1, Len(rounded) - 15)) \o <<".">>
                          \o ToChars(SubSeq(rounded, Len(rounded) - 14, Len(rounded))) :
              rounded \in {Round15(k, UlpBits(x.digs[1])) : k \in {NearestDouble(x.digs)}}})

(***************************************************************************)
(* num_bigint::BigInt: parse_bytes, multiplication by a power of ten, and  *)
(* Display.                                                                *)
(***************************************************************************)
\* BigInt::parse_bytes(text, 10).unwrap(): sign and magnitude (<<>> is zero)
BigIntParse(text) ==
    [neg |-> LiteralNeg(text) /\ ~AllZero(ToDigits(Unsigned(text))),
     mag |-> StripLeadingZeros(ToDigits(Unsigned(text)))]

\* base * BigInt::from(10).pow(exp): in decimal digits, exp zeros behind a
\* magnitude that is not zero
BigIntMulPow10(b, exp) ==
    [b EXCEPT !.mag = IF Len(b.mag) = 0 THEN <<>> ELSE b.mag \o Repeat(0, exp)]

\* format!("{}", bigint)
BigIntText(b) ==
    IF Len(b.mag) = 0 THEN <<"0">>
    ELSE (IF b.neg THEN <<"-">> ELSE <<>>) \o ToChars(b.mag)

(***************************************************************************)
(* The formatter.                                                          *)
(***************************************************************************)
\* a variant of trim_trailing_zeros without the test for a decimal point
trim_trailing_zeros_anywhere(s) ==
    LET anyPopped == SubSeq(s, 1, LastNot(s, "0"))
    IN  IF Len(anyPopped) > 0 /\ Last(anyPopped) = "." THEN Front(anyPopped) ELSE anyPopped

\* Removes trailing zeros and decimal point if needed: the while loop pops
\* every trailing '0', then one trailing '.' is popped
trim_trailing_zeros(s) ==
    IF Contains(s, ".")
    THEN LET popped == SubSeq(s, 1, LastNot(s, "0"))
         IN  IF Len(popped) > 0 /\ Last(popped) = "." THEN Front(popped) ELSE popped
    ELSE s

format_regular_number(num) == trim_trailing_zeros(Display(num))

format_large_number(mantissa_str, exp) ==
    BigIntText(BigIntMulPow10(BigIntParse(mantissa_str), exp))

\* a variant of format_small_number that pads with neg_exp zeros, the length
\* of the digits not subtracted
format_small_number_pads(mantissa_str, exp) ==
    LET padExp    == -exp
        padResult == BigIntText(BigIntParse(mantissa_str))
    IN  IF padExp >= Len(padResult)
        THEN <<"0", ".">> \o Repeat("0", padExp) \o padResult
        ELSE SubSeq(padResult, 1, Len(padResult) - padExp) \o <<".">>
                 \o SubSeq(padResult, Len(padResult) - padExp + 1, Len(padResult))

format_small_number(mantissa_str, exp) ==
    LET neg_exp == -exp
        result  == BigIntText(BigIntParse(mantissa_str))
    IN  IF neg_exp >= Len(result)
        THEN <<"0", ".">> \o Repeat("0", neg_exp - Len(result)) \o result
        ELSE SubSeq(result, 1, Len(result) - neg_exp) \o <<".">>
                 \o SubSeq(result, Len(result) - neg_exp + 1, Len(result))

\* the mantissa text of format_with_bigint: 15 places, zeros and point trimmed
MantissaStr(mantissa) == trim_end_matches(trim_end_matches(FormatFixed15(mantissa), "0"), ".")

\* the body of format_with_bigint below its first statement
SplitMantissaStr(mantissa_str, exp) ==
    LET int_part        == IntText(mantissa_str)
        frac_part       == FracText(mantissa_str)
        mantissa_as_int == int_part \o frac_part
        adjusted_exp    == exp - Len(frac_part)
    IN  IF adjusted_exp >= 0 THEN format_large_number(mantissa_as_int, adjusted_exp)
        ELSE format_small_number(mantissa_as_int, adjusted_exp)

format_with_bigint(mantissa, exp) ==
    The({SplitMantissaStr(mantissa_str, exp) : mantissa_str \in {MantissaStr(mantissa)}})

\* num.abs() < 1e16 && num.abs() >= 1e-6, on the shortest digits: both
\* constants are doubles whose shortest digits are a single 1
InRegularBand(num) == ~F64IsZero(num) /\ num.exp < 16 /\ num.exp >= -6

\* parts[0].parse::<f64>() and parts[1].parse::<i32>() of format!("{:e}", num)
SciMantissa(num) == ParseF64(SplitAtE(LowerExp(num))[1]).val

\* i32::MAX and -i32::MIN as digits
I32MaxDigits == <<2, 1, 4, 7, 4, 8, 3, 6, 4, 7>>

I32MinDigits == <<2, 1, 4, 7, 4, 8, 3, 6, 4, 8>>

\* the digits ds, without leading zeros, are a number up to lim
DigitsAtMost(ds, lim) == Len(ds) < Len(lim) \/ (Len(ds) = Len(lim) /\ ~DigitsLess(lim, ds))

RECURSIVE NegDigitsToInt(_)
NegDigitsToInt(ds) == IF Len(ds) = 0 THEN 0 ELSE NegDigitsToInt(Front(ds)) * 10 - Last(ds)

\* str::parse::<i32>(): Ok(value) or Err (no digits, a character that is no
\* digit, or a number outside i32)
ParseI32(e) ==
    IF Len(Unsigned(e)) = 0 \/ ~AllDigitChars(Unsigned(e)) THEN [ok |-> FALSE, val |-> 0]
    ELSE IF e[1] = "-"
    THEN IF DigitsAtMost(StripLeadingZeros(ToDigits(Unsigned(e))), I32MinDigits)
         THEN [ok |-> TRUE, val |-> NegDigitsToInt(ToDigits(Unsigned(e)))]
         ELSE [ok |-> FALSE, val |-> 0]
    ELSE IF DigitsAtMost(StripLeadingZeros(ToDigits(Unsigned(e))), I32MaxDigits)
         THEN [ok |-> TRUE, val |-> DigitsToInt(StripLeadingZeros(ToDigits(Unsigned(e))))]
         ELSE [ok |-> FALSE, val |-> 0]

\* parts[1].parse::<i32>().unwrap(): "{:e}" prints an exponent within i32
SciExp(num) == ParseI32(SplitAtE(LowerExp(num))[2]).val

\* the mantissa handed to format_with_bigint: -mantissa when mantissa < 0.0
SciMagnitude(num) ==
    IF F64GeZero(SciMantissa(num)) THEN SciMantissa(num) ELSE F64Neg(SciMantissa(num))

\* the text before trim_trailing_zeros on the scientific path
ScientificText(num) ==
    The({IF F64GeZero(mantissa) THEN format_with_bigint(mantissa, SciExp(num))
         ELSE <<"-">> \o format_with_bigint(F64Neg(mantissa), SciExp(num)) :
         mantissa \in {SciMantissa(num)}})

\* stands for the text of a double the model does not determine
NotDeterminedText == <<"?">>

format_full_decimal(num) ==
    IF F64Undetermined(num) THEN NotDeterminedText
    ELSE IF num.kind = "nan" THEN <<"N", "a", "N">>
    ELSE IF num.kind = "inf"
    THEN IF ~num.neg THEN <<"I", "n", "f", "i", "n", "i", "t", "y">>
         ELSE <<"-", "I", "n", "f", "i", "n", "i", "t", "y">>
    ELSE IF InRegularBand(num) /\ ~Contains(Display(num), "e") THEN format_regular_number(num)
    ELSE trim_trailing_zeros(ScientificText(num))

(***************************************************************************)
(* State.  Each specification below drives one part of the program and     *)
(* leaves the variables of the other parts idle.                           *)
(*   pc, history, stdout      the driver loop of main                      *)
(*   chars, tok, evaluated    evaluate_expression: the tokenizer loop and  *)
(*                            the value returned                           *)
(*   token_vec, calc          calculate: its argument and its loop state   *)
(*   fmt                      format_full_decimal: argument and results    *)
(*   trim                     trim_trailing_zeros: argument and result     *)
(***************************************************************************)
VARIABLES pc, history, stdout, chars, tok, evaluated, token_vec, calc, fmt, trim

vars == <<pc, history, stdout, chars, tok, evaluated, token_vec, calc, fmt, trim>>

Idle == [stage |-> "idle"]

DriverIdle == pc = "idle" /\ history = <<>> /\ stdout = <<>>

EvalIdle == chars = <<>> /\ tok = Idle /\ evaluated = Idle

CalcIdle == token_vec = <<>> /\ calc = Idle

FmtIdle == fmt = Idle

TrimIdle == trim = Idle

(***************************************************************************)
(* SpecFmt: format_full_decimal applied to an f64.                         *)
(***************************************************************************)
\* significant digits of doubles with at most 15 digits: any decimal
\* exponent gives a double with these shortest digits
FmtDigits ==
    {<<1>>, <<2, 5>>, <<9, 3>>, <<1, 2, 3, 4, 5, 6, 7, 8, 9, 0, 1, 2, 3, 4, 5>>}

\* doubles whose shortest digits number 16 or 17: 2^70, 2^80, 2^-30, 0.1 + 0.2,
\* 1/3, 1e22/3 and 1.1e17/3
FmtLongInputs ==
    {F64Fin(FALSE, <<1, 1, 8, 0, 5, 9, 1, 6, 2, 0, 7, 1, 7, 4, 1, 1, 3>>, 21),
     F64Fin(FALSE, <<1, 2, 0, 8, 9, 2, 5, 8, 1, 9, 6, 1, 4, 6, 2, 9, 2>>, 24),
     F64Fin(FALSE, <<9, 3, 1, 3, 2, 2, 5, 7, 4, 6, 1, 5, 4, 7, 8, 5>>, -10),
     F64Fin(FALSE, <<3, 0, 0, 0, 0, 0, 0, 0, 0, 0, 0, 0, 0, 0, 0, 0, 4>>, -1),
     F64Fin(FALSE, <<3, 3, 3, 3, 3, 3, 3, 3, 3, 3, 3, 3, 3, 3, 3, 3>>, -1),
     F64Fin(TRUE, <<3, 3, 3, 3, 3, 3, 3, 3, 3, 3, 3, 3, 3, 3, 3, 3, 5>>, 21),
     F64Fin(FALSE, <<3, 6, 6, 6, 6, 6, 6, 6, 6, 6, 6, 6, 6, 6, 6, 6, 4>>, 16)}

FmtInputs ==
    {F64Fin(neg, digs, e) : neg \in BOOLEAN, digs \in FmtDigits, e \in (-MaxExp)..MaxExp}
        \cup FmtLongInputs
        \cup {F64Zero(FALSE), F64Zero(TRUE), F64Inf(FALSE), F64Inf(TRUE), F64NaN}

FmtCall(num) ==
    [stage |-> "called", num |-> num, path |-> "", mantissa_str |-> <<>>, exp |-> 0,
     placed |-> <<>>, out |-> <<>>]

InitFmt ==
    /\ fmt \in {FmtCall(num) : num \in FmtInputs}
    /\ DriverIdle /\ EvalIdle /\ CalcIdle /\ TrimIdle

\* the returns for NaN and the infinities
FormatSpecial ==
    /\ fmt.stage = "called"
    /\ fmt.num.kind # "fin"
    /\ fmt' = [fmt EXCEPT !.stage = "returned", !.path = "special",
                          !.out = format_full_decimal(fmt.num)]
    /\ UNCHANGED <<pc, history, stdout, chars, tok, evaluated, token_vec, calc, trim>>

\* the return through format_regular_number
FormatRegular ==
    /\ fmt.stage = "called"
    /\ fmt.num.kind = "fin"
    /\ InRegularBand(fmt.num) /\ ~Contains(Display(fmt.num), "e")
    /\ fmt' = [fmt EXCEPT !.stage = "returned", !.path = "regular",
                          !.out = format_full_decimal(fmt.num)]
    /\ UNCHANGED <<pc, history, stdout, chars, tok, evaluated, token_vec, calc, trim>>

\* the return through format_with_bigint; mantissa_str, exp and the text
\* format_with_bigint returned are kept next to the result
FormatScientific ==
    /\ fmt.stage = "called"
    /\ fmt.num.kind = "fin"
    /\ ~(InRegularBand(fmt.num) /\ ~Contains(Display(fmt.num), "e"))
    /\ \E mantissa \in {SciMagnitude(fmt.num)} :
         \E text \in {MantissaStr(mantissa)} :
           \E placed \in {SplitMantissaStr(text, SciExp(fmt.num))} :
             \E out \in {format_full_decimal(fmt.num)} :
               fmt' = [fmt EXCEPT !.stage = "returned", !.path = "scientific",
                                  !.mantissa_str = text, !.exp = SciExp(fmt.num),
                                  !.placed = placed, !.out = out]
    /\ UNCHANGED <<pc, history, stdout, chars, tok, evaluated, token_vec, calc, trim>>

NextFmt == FormatSpecial \/ FormatRegular \/ FormatScientific

SpecFmt == InitFmt /\ [][NextFmt]_vars

(***************************************************************************)
(* SpecTrim: trim_trailing_zeros applied to a numeral, directly and        *)
(* through format_regular_number.                                          *)
(***************************************************************************)
TrimDigitChars == {"0", "1", "2"}

\* digit runs of an integer part: no leading zero unless the run is "0"
TrimIntRuns ==
    {r \in SeqsUpTo(TrimDigitChars, MaxTrimLen) : Len(r) > 0 /\ (r[1] = "0" => Len(r) = 1)}

\* nothing, or a decimal point and a fractional run, n characters at most
TrimFracRuns(n) ==
    IF n < 2 THEN {<<>>}
    ELSE {<<>>} \cup {<<".">> \o r : r \in {q \in SeqsUpTo(TrimDigitChars, n - 1) : Len(q) > 0}}

\* a sign and an integer run, and the fractions that fit behind them
TrimHeads ==
    {h \in {sign \o int : sign \in {<<>>, <<"-">>}, int \in TrimIntRuns} : Len(h) <= MaxTrimLen}

\* the numerals the formatter builds: sign, integer digits, fraction
TrimTexts == UNION {{h \o frac : frac \in TrimFracRuns(MaxTrimLen - Len(h))} : h \in TrimHeads}

\* doubles of the regular band
TrimNumbers ==
    {F64Fin(neg, digs, e) : neg \in BOOLEAN, digs \in {<<1>>, <<2>>, <<2, 5>>, <<1, 0, 2>>},
                            e \in (-6)..15}

TrimCall(s) == [stage |-> "called", via |-> "trim_trailing_zeros", s |-> s, out |-> <<>>]

RegularCall(num) ==
    [stage |-> "called", via |-> "format_regular_number", num |-> num, s |-> <<>>, out |-> <<>>]

InitTrim ==
    /\ trim \in {TrimCall(s) : s \in TrimTexts} \cup {RegularCall(num) : num \in TrimNumbers}
    /\ DriverIdle /\ EvalIdle /\ CalcIdle /\ FmtIdle

\* trim_trailing_zeros(&mut s)
TrimText ==
    /\ trim.stage = "called"
    /\ trim.via = "trim_trailing_zeros"
    /\ trim' = [trim EXCEPT !.stage = "returned", !.out = trim_trailing_zeros(trim.s)]
    /\ UNCHANGED <<pc, history, stdout, chars, tok, evaluated, token_vec, calc, fmt>>

\* format_regular_number(num): s is the text given to trim_trailing_zeros
FormatRegularNumber ==
    /\ trim.stage = "called"
    /\ trim.via = "format_regular_number"
    /\ trim' = [trim EXCEPT !.stage = "returned", !.s = Display(trim.num),
                            !.out = format_regular_number(trim.num)]
    /\ UNCHANGED <<pc, history, stdout, chars, tok, evaluated, token_vec, calc, fmt>>

NextTrim == TrimText \/ FormatRegularNumber

SpecTrim == InitTrim /\ [][NextTrim]_vars

(***************************************************************************)
(* SpecCalc: calculate, one iteration of its for loop per step.            *)
(***************************************************************************)
CalcNumbers ==
    {F64Zero(FALSE), F64Fin(FALSE, <<2>>, 0), F64Fin(FALSE, <<3>>, 0), F64Fin(FALSE, <<4>>, 0)}

CalcTokens == {Number(n) : n \in CalcNumbers} \cup {Operator(c) : c \in {"+", "-", "*", "/"}}

\* tokenize puts an Operator between any two Numbers
NoAdjacentNumbers(ts) ==
    \A k \in 2..Len(ts) : ~(ts[k - 1].type = "Number" /\ ts[k].type = "Number")

\* a value and an error the model determines
Determined(val, err) == ~F64Undetermined(val) /\ err # NotDetermined.err

DeterminedResult(r) == Determined(r.val, r.err)

\* the arithmetic of the whole run is among the cases the model computes
CalcDetermined(ts) == DeterminedResult(calculate(ts))

CalcInputs ==
    {ts \in SeqsUpTo(CalcTokens, MaxTokens) : NoAdjacentNumbers(ts) /\ CalcDetermined(ts)}

InitCalc ==
    /\ token_vec \in CalcInputs
    /\ calc = CalcStart
    /\ DriverIdle /\ EvalIdle /\ FmtIdle /\ TrimIdle

\* Token::Number(num) with apply_operation returning Ok
CalcNumber ==
    /\ calc.status = "running"
    /\ calc.consumed < Len(token_vec)
    /\ token_vec[calc.consumed + 1].type = "Number"
    /\ apply_operation(calc.result, token_vec[calc.consumed + 1].num, calc.current_op).ok
    /\ calc' = CalcBody(token_vec[calc.consumed + 1], calc)
    /\ UNCHANGED <<pc, history, stdout, chars, tok, evaluated, token_vec, fmt, trim>>

\* Token::Number(num) with apply_operation returning Err: the ? returns it
CalcDivisionByZero ==
    /\ calc.status = "running"
    /\ calc.consumed < Len(token_vec)
    /\ token_vec[calc.consumed + 1].type = "Number"
    /\ ~apply_operation(calc.result, token_vec[calc.consumed + 1].num, calc.current_op).ok
    /\ calc' = CalcBody(token_vec[calc.consumed + 1], calc)
    /\ UNCHANGED <<pc, history, stdout, chars, tok, evaluated, token_vec, fmt, trim>>

\* Token::Operator(op)
CalcOperator ==
    /\ calc.status = "running"
    /\ calc.consumed < Len(token_vec)
    /\ token_vec[calc.consumed + 1].type = "Operator"
    /\ calc' = CalcBody(token_vec[calc.consumed + 1], calc)
    /\ UNCHANGED <<pc, history, stdout, chars, tok, evaluated, token_vec, fmt, trim>>

\* Ok(result)
CalcReturn ==
    /\ calc.status = "running"
    /\ calc.consumed = Len(token_vec)
    /\ calc' = CalcRun(token_vec, calc)
    /\ UNCHANGED <<pc, history, stdout, chars, tok, evaluated, token_vec, fmt, trim>>

NextCalc == CalcNumber \/ CalcDivisionByZero \/ CalcOperator \/ CalcReturn

SpecCalc == InitCalc /\ [][NextCalc]_vars

(***************************************************************************)
(* SpecTok: tokenize, one iteration of its while loop per step.            *)
(***************************************************************************)
TokAlphabet == {"1", ".", "e", "+", "-", "/", "x"}

TokExamples ==
    {<<"1", "e", "-", "3", "+", "2">>, <<"1", "E", "+", "3", "*", "2">>,
     <<"1", "2", ".", ".", "3", "+", "4">>, <<"2", "+", "3", "*", "4">>,
     <<"-", "5", "+", "3">>}

TokInputs == SeqsUpTo(TokAlphabet, MaxLen) \cup TokExamples

InitTok ==
    /\ chars \in TokInputs
    /\ tok = TokStart
    /\ evaluated = Idle
    /\ DriverIdle /\ CalcIdle /\ FmtIdle /\ TrimIdle

\* the branch of line 63
TokenizeNumberChar ==
    /\ tok.status = "running"
    /\ tok.i < Len(chars)
    /\ IsNumberChar(chars[tok.i + 1])
    /\ tok' = TokBody(chars, tok)
    /\ UNCHANGED <<pc, history, stdout, chars, evaluated, token_vec, calc, fmt, trim>>

\* the branch of line 74
TokenizeOperatorChar ==
    /\ tok.status = "running"
    /\ tok.i < Len(chars)
    /\ IsOperatorChar(chars[tok.i + 1])
    /\ tok' = TokBody(chars, tok)
    /\ UNCHANGED <<pc, history, stdout, chars, evaluated, token_vec, calc, fmt, trim>>

\* the branch of line 83
TokenizeInvalidChar ==
    /\ tok.status = "running"
    /\ tok.i < Len(chars)
    /\ ~IsNumberChar(chars[tok.i + 1])
    /\ ~IsOperatorChar(chars[tok.i + 1])
    /\ tok' = TokBody(chars, tok)
    /\ UNCHANGED <<pc, history, stdout, chars, evaluated, token_vec, calc, fmt, trim>>

\* the loop is left: lines 89-96
TokenizeEnd ==
    /\ tok.status = "running"
    /\ tok.i >= Len(chars)
    /\ tok' = TokRun(chars, tok)
    /\ UNCHANGED <<pc, history, stdout, chars, evaluated, token_vec, calc, fmt, trim>>

NextTok == TokenizeNumberChar \/ TokenizeOperatorChar \/ TokenizeInvalidChar \/ TokenizeEnd

SpecTok == InitTok /\ [][NextTok]_vars

(***************************************************************************)
(* SpecEval: evaluate_expression: the tokenizer's steps, then calculate    *)
(* or the error of tokenize handed on.                                     *)
(***************************************************************************)
EvalAlphabet == {"3", "5", ".", "e", "+", "-", "*"}

EvalExamples ==
    {<<"2", "+", "3", "*", "4">>, <<"5", "/", "0">>, <<"2", "x">>,
     <<"1", "2", ".", ".", "3", "+", "4">>, <<"1", "e", "-", "3">>}

\* the arithmetic of the expression is among the cases the model computes
EvalDetermined(expr) == DeterminedResult(evaluate_expression(expr))

EvalInputs == {e \in SeqsUpTo(EvalAlphabet, MaxLen) \cup EvalExamples : EvalDetermined(e)}

InitEval ==
    /\ chars \in EvalInputs
    /\ tok = TokStart
    /\ evaluated = [stage |-> "called"]
    /\ DriverIdle /\ CalcIdle /\ FmtIdle /\ TrimIdle

\* calculate(tokens)
Calculate ==
    /\ evaluated.stage = "called"
    /\ tok.status = "ok"
    /\ \E r \in {calculate(tok.tokens)} :
         evaluated' = [stage |-> "returned", ok |-> r.ok, val |-> r.val, err |-> r.err]
    /\ UNCHANGED <<pc, history, stdout, chars, tok, token_vec, calc, fmt, trim>>

\* tokenize(expr)? with tokenize returning Err
PropagateError ==
    /\ evaluated.stage = "called"
    /\ tok.status = "err"
    /\ evaluated' = [stage |-> "returned", ok |-> FALSE, val |-> F64Zero(FALSE), err |-> tok.err]
    /\ UNCHANGED <<pc, history, stdout, chars, tok, token_vec, calc, fmt, trim>>

NextEval ==
    \/ TokenizeNumberChar \/ TokenizeOperatorChar \/ TokenizeInvalidChar \/ TokenizeEnd
    \/ Calculate \/ PropagateError

SpecEval == InitEval /\ [][NextEval]_vars

(***************************************************************************)
(* Spec: the driver loop of main.  A printed line is a sequence of pieces  *)
(* of text, written one behind the other.                                  *)
(***************************************************************************)
Banner ==
    <<<<"rcalc - Rust Calculator">>,
      <<"Enter expressions like '123+456' or '123*1e6'">>,
      <<"Press Ctrl+C to exit">>>>

NotSpace(c) == c # " "

\* readline.replace(" ", "")
StripSpaces(line) == SelectSeq(line, NotSpace)

\* println!("Error: {}", err)
ErrorLine(err) == <<"Error: ", err.msg>> \o err.arg

\* the lines the terminal delivers
Lines ==
    {<<>>, <<" ">>,
     <<"2", "+", "3", "*", "4">>, <<"-", "5", "+", "3">>, <<"1", " ", "+", " ", "2">>,
     <<"5", "/", "0">>, <<"0", "/", "0">>, <<"1", "2", ".", ".", "3", "+", "4">>,
     <<"2", "x">>, <<"2", "\t", "+", "3">>,
     <<"1", "e", "2", "0">>, <<"9", ".", "3", "e", "2", "0">>,
     <<"2", "e", "3", "0", "8">>, <<"5", "/", "1", "e", "-", "3", "2", "4">>}

Init ==
    /\ pc = "start"
    /\ history = <<>>
    /\ stdout = <<>>
    /\ EvalIdle /\ CalcIdle /\ FmtIdle /\ TrimIdle

\* lines 13-16
PrintBanner ==
    /\ pc = "start"
    /\ stdout' = Banner
    /\ pc' = "reading"
    /\ UNCHANGED <<history, chars, tok, evaluated, token_vec, calc, fmt, trim>>

\* rl.readline returns Err (end of input, Ctrl+C): break
ReadlineErr ==
    /\ pc = "reading"
    /\ pc' = "exited"
    /\ UNCHANGED <<history, stdout, chars, tok, evaluated, token_vec, calc, fmt, trim>>

\* a line that is empty once its spaces are removed: continue
SkipEmpty ==
    /\ pc = "reading"
    /\ Len(history) < MaxLines
    /\ \E line \in Lines :
         /\ StripSpaces(line) = <<>>
         /\ history' = Append(history, line)
    /\ UNCHANGED <<pc, stdout, chars, tok, evaluated, token_vec, calc, fmt, trim>>

\* evaluate_expression returns Ok(result)
PrintResult ==
    /\ pc = "reading"
    /\ Len(history) < MaxLines
    /\ \E line \in Lines :
         /\ StripSpaces(line) # <<>>
         /\ \E r \in {evaluate_expression(StripSpaces(line))} :
              /\ r.ok
              /\ \E text \in {format_full_decimal(r.val)} : stdout' = Append(stdout, text)
         /\ history' = Append(history, line)
    /\ UNCHANGED <<pc, chars, tok, evaluated, token_vec, calc, fmt, trim>>

\* a variant of PrintError that leaves the loop after printing the error
PrintErrorAndExit ==
    /\ pc = "reading"
    /\ Len(history) < MaxLines
    /\ \E line \in Lines :
         /\ StripSpaces(line) # <<>>
         /\ \E r \in {evaluate_expression(StripSpaces(line))} :
              /\ ~r.ok
              /\ stdout' = Append(stdout, ErrorLine(r.err))
         /\ history' = Append(history, line)
    /\ pc' = "exited"
    /\ UNCHANGED <<chars, tok, evaluated, token_vec, calc, fmt, trim>>

\* evaluate_expression returns Err(err)
PrintError ==
    /\ pc = "reading"
    /\ Len(history) < MaxLines
    /\ \E line \in Lines :
         /\ StripSpaces(line) # <<>>
         /\ \E r \in {evaluate_expression(StripSpaces(line))} :
              /\ ~r.ok
              /\ stdout' = Append(stdout, ErrorLine(r.err))
         /\ history' = Append(history, line)
    /\ UNCHANGED <<pc, chars, tok, evaluated, token_vec, calc, fmt, trim>>

Next == PrintBanner \/ ReadlineErr \/ SkipEmpty \/ PrintResult \/ PrintError

Spec == Init /\ [][Next]_vars

(***************************************************************************)
(* Properties.  Numerals are compared as numbers: significant digits (no   *)
(* leading and no trailing zero, none at all for zero) times a power of    *)
(* ten, with the sign written.                                             *)
(***************************************************************************)
\* digits ds times 10^pow
DecimalValue(neg, ds, pow) ==
    IF AllZero(ds) THEN [neg |-> FALSE, digs |-> <<>>, pow |-> 0]
    ELSE [neg |-> neg, digs |-> StripTrailingZeros(StripLeadingZeros(ds)),
          pow |-> pow + (Len(ds) - LastNot(ds, 0))]

\* the number a positional numeral denotes
NumeralValue(text) ==
    DecimalValue(LiteralNeg(text),
                 ToDigits(IntText(Unsigned(text)) \o FracText(Unsigned(text))),
                 -Len(FracText(Unsigned(text))))

\* mantissa x 10^exponent of the scientific representation of a finite double
ScientificValue(num) == DecimalValue(num.neg, num.digs, num.exp - (Len(num.digs) - 1))

\* the operator pending after the first k tokens of ts
PendingOp(ts, k) ==
    IF \E j \in 1..k : ts[j].type = "Operator"
    THEN ts[CHOOSE j \in 1..k : ts[j].type = "Operator" /\ \A m \in (j + 1)..k : ts[m].type = "Number"].op
    ELSE "+"

\* accumulator <pending operator> n
Arith(acc, pending, n) ==
    CASE pending = "+" -> F64Add(acc, n)
      [] pending = "-" -> F64Sub(acc, n)
      [] pending = "*" -> F64Mul(acc, n)
      [] pending = "/" -> F64Div(acc, n)

\* the left fold of ts from accumulator acc and pending operator pending
RECURSIVE FoldLeft(_, _, _)
FoldLeft(ts, acc, pending) ==
    IF ts = <<>> THEN acc
    ELSE IF Head(ts).type = "Number"
    THEN FoldLeft(Tail(ts), Arith(acc, pending, Head(ts).num), pending)
    ELSE FoldLeft(Tail(ts), acc, Head(ts).op)

Two == F64Fin(FALSE, <<2>>, 0)

Three == F64Fin(FALSE, <<3>>, 0)

Four == F64Fin(FALSE, <<4>>, 0)

Five == F64Fin(FALSE, <<5>>, 0)

\* C1: as long as no error has occurred, calculate holds the left fold of the
\* tokens it has consumed, from accumulator 0.0 and pending operator '+': an
\* Operator token only replaces the pending operator, a Number token n sets
\* the accumulator to accumulator <pending operator> n; the value returned is
\* the left fold of all tokens, without precedence: 2+3*4 gives 20
LeftFoldNoPrecedence ==
    /\ calc.status # "err" =>
         /\ calc.result = FoldLeft(SubSeq(token_vec, 1, calc.consumed), F64Zero(FALSE), "+")
         /\ calc.current_op = PendingOp(token_vec, calc.consumed)
    /\ calc.status = "ok" =>
         /\ calc.consumed = Len(token_vec)
         /\ calculate(token_vec) =
              [ok |-> TRUE, val |-> FoldLeft(token_vec, F64Zero(FALSE), "+"), err |-> NoErr]
    /\ (calc.status = "ok"
          /\ token_vec = <<Number(Two), Operator("+"), Number(Three), Operator("*"), Number(Four)>>) =>
         calc.result = F64Fin(FALSE, <<2>>, 1)

\* calculate has returned 20 for the tokens of 2+3*4
LeftFoldReached ==
    /\ token_vec = <<Number(Two), Operator("+"), Number(Three), Operator("*"), Number(Four)>>
    /\ calc.status = "ok"
    /\ calc.result = F64Fin(FALSE, <<2>>, 1)

\* C2: for a finite input format_full_decimal returns a text without an
\* exponent marker whose value is mantissa x 10^exponent of the input's
\* scientific representation, every significant digit kept
NoInformationLoss ==
    (fmt.stage = "returned" /\ fmt.num.kind = "fin") =>
        /\ ~Contains(fmt.out, "e")
        /\ ~Contains(fmt.out, "E")
        /\ NumeralValue(fmt.out) = ScientificValue(fmt.num)

\* C3: a Number token 0.0 processed while the pending operator is '/' ends
\* calculate with the error "Division by zero!", whatever the accumulator
\* holds: the accumulator keeps the finite fold of the tokens before it (no
\* infinity and no NaN comes out of the division), the token is the last one
\* consumed, and calculate returns the error and no number
DivisionByZeroFails ==
    /\ \A k \in 1..calc.consumed :
         (/\ token_vec[k].type = "Number"
          /\ F64IsZero(token_vec[k].num)
          /\ PendingOp(token_vec, k - 1) = "/") =>
            /\ calc.status = "err"
            /\ calc.err = ErrMsg("Division by zero!", <<>>)
            /\ calc.consumed = k
            /\ calc.result = FoldLeft(SubSeq(token_vec, 1, k - 1), F64Zero(FALSE), "+")
            /\ calc.result.kind = "fin"
            /\ ~calculate(token_vec).ok
            /\ calculate(token_vec).err = ErrMsg("Division by zero!", <<>>)

\* 0/0 has failed, with a token left unprocessed behind the division
DivisionByZeroReached ==
    /\ token_vec = <<Number(F64Zero(FALSE)), Operator("/"), Number(F64Zero(FALSE)), Operator("+"), Number(Two)>>
    /\ calc.status = "err"
    /\ calc.consumed = 3

\* what one line of input makes the driver print: nothing when the line is
\* empty once its spaces are removed, else the complete formatted result or
\* the complete error line
PrintedFor(line) ==
    IF StripSpaces(line) = <<>> THEN <<>>
    ELSE The({IF r.ok THEN <<format_full_decimal(r.val)>> ELSE <<ErrorLine(r.err)>> :
              r \in {evaluate_expression(StripSpaces(line))}})

RECURSIVE PrintedForAll(_)
PrintedForAll(lines) ==
    IF lines = <<>> THEN <<>> ELSE PrintedForAll(Front(lines)) \o PrintedFor(Last(lines))

\* the lines that are not empty once their spaces are removed
NonBlank(lines) == {k \in 1..Len(lines) : StripSpaces(lines[k]) # <<>>}

\* C4 as stated: every line that is not the empty line has made the driver
\* print exactly one line
OneLinePerNonEmptyLine ==
    pc # "start" =>
        Len(stdout) = Len(Banner) + Cardinality({k \in 1..Len(history) : history[k] # <<>>})

\* behind the banner, the output is one complete line per line of input that
\* is not empty once its spaces are removed
OneLinePerLine ==
    pc # "start" =>
        /\ Len(stdout) = Len(Banner) + Cardinality(NonBlank(history))
        /\ stdout = Banner \o PrintedForAll(history)

\* the step that prints for a line returns to reading
KeepsReading == (pc = "reading" /\ Len(stdout') > Len(stdout)) => pc' = "reading"

\* the loop is left only from readline, with nothing read and nothing printed
ExitsOnlyAtReadline == pc' = "exited" => (history' = history /\ stdout' = stdout)

\* C4: for every sequence of input lines, each line that is not empty once
\* its spaces are removed makes the driver print exactly one line, the
\* complete formatted result or a complete "Error: <message>" line, and after
\* an error the driver reads the next line; it stops only when readline fails
OneLinePerLineAndContinue ==
    /\ []OneLinePerLine
    /\ [][KeepsReading /\ ExitsOnlyAtReadline]_vars

\* after the error of 12..3+4 the next line has been read and answered
ContinuedAfterError ==
    /\ history = <<<<"1", "2", ".", ".", "3", "+", "4">>, <<"2", "+", "3", "*", "4">>>>
    /\ stdout = Banner \o <<<<"Error: ", "Invalid number: ", "1", "2", ".", ".", "3">>, <<"2", "0">>>>
    /\ pc = "reading"

\* position p of cs holds an operator character that is not the sign behind
\* an exponent marker
FreeOp(cs, p) ==
    /\ IsOperatorChar(cs[p])
    /\ ~(p > 1 /\ IsExpMark(cs[p - 1]) /\ (cs[p] = "+" \/ cs[p] = "-"))

\* the characters behind the last free operator among the first n of cs
PendingRun(cs, n) ==
    IF \E p \in 1..n : FreeOp(cs, p)
    THEN SubSeq(cs, (CHOOSE p \in 1..n : FreeOp(cs, p) /\ \A q \in (p + 1)..n : ~FreeOp(cs, q)) + 1, n)
    ELSE SubSeq(cs, 1, n)

\* the tokens of the first n characters of cs: at every free operator the
\* pending literal, when there is one, and the operator
RECURSIVE TokensUpTo(_, _)
TokensUpTo(cs, n) ==
    IF n = 0 THEN <<>>
    ELSE IF FreeOp(cs, n)
    THEN TokensUpTo(cs, n - 1)
             \o (IF PendingRun(cs, n - 1) # <<>> THEN <<Number(ParseF64(PendingRun(cs, n - 1)).val)>> ELSE <<>>)
             \o <<Operator(cs[n])>>
    ELSE TokensUpTo(cs, n - 1)

\* the free '-' among the first n characters of cs
FreeMinus(cs, n) == {p \in 1..n : cs[p] = "-" /\ FreeOp(cs, p)}

\* C5: the tokenizer has emitted an Operator('-') for every '-' it has
\* passed that does not follow 'e'/'E', the first character of the input
\* included, and no Number token is negative; a leading '-' is applied to the
\* accumulator 0.0, and -5+3 evaluates to 0 - 5 + 3 = -2
MinusIsAlwaysOperator ==
    /\ \A k \in 1..Len(tok.tokens) : tok.tokens[k].type = "Number" => ~tok.tokens[k].num.neg
    /\ Cardinality({k \in 1..Len(tok.tokens) : tok.tokens[k] = Operator("-")})
         = Cardinality(FreeMinus(chars, tok.i))
    /\ (tok.i >= 1 /\ chars[1] = "-") => tok.tokens[1] = Operator("-")
    /\ (/\ evaluated.stage = "returned"
        /\ evaluated.ok
        /\ Len(tok.tokens) >= 2
        /\ tok.tokens[1] = Operator("-")
        /\ tok.tokens[2].type = "Number") =>
           evaluated.val = FoldLeft(SubSeq(tok.tokens, 3, Len(tok.tokens)),
                                    F64Sub(F64Zero(FALSE), tok.tokens[2].num), "-")
    /\ (chars = <<"-", "5", "+", "3">> /\ evaluated.stage = "returned") =>
           /\ tok.tokens = <<Operator("-"), Number(Five), Operator("+"), Number(Three)>>
           /\ evaluated.ok
           /\ evaluated.val = F64Fin(TRUE, <<2>>, 0)

\* -5+3 has been evaluated to -2
LeadingMinusReached ==
    /\ chars = <<"-", "5", "+", "3">>
    /\ evaluated.stage = "returned"
    /\ evaluated.ok
    /\ evaluated.val = F64Fin(TRUE, <<2>>, 0)

\* the digits D placed for the exponent n = e - f, as the claim C6 words it
PlaceDigits(D, n) ==
    IF n >= 0 THEN D \o Repeat("0", n)
    ELSE IF -n >= Len(D) THEN <<"0", ".">> \o Repeat("0", -n - Len(D)) \o D
    ELSE SubSeq(D, 1, Len(D) + n) \o <<".">> \o SubSeq(D, Len(D) + n + 1, Len(D))

\* mantissa texts for direct calls of the digit placement
PlacementTexts ==
    {<<"1">>, <<"2", ".", "5">>, <<"1", ".", "2", "5">>, <<"9", ".", "3", "0", "1">>,
     <<"1", "0">>}

\* the digit string of a mantissa text: integer and fractional run, one
\* behind the other (the sign that "{:.15}" prints for -0.0 is no digit)
MantissaDigits(text) == IntText(Unsigned(text)) \o FracText(text)

\* C6: on the scientific path the text format_with_bigint returns is the
\* mantissa digits D (integer and fractional run, f fractional digits) placed
\* for the exponent e - f: D and e - f zeros, or "0." and zeros and D, or D
\* with a decimal point shift places from the right; its value is
\* D x 10^(e-f); 1e20 gives 100000000000000000000 and 1e-20 gives
\* 0.00000000000000000001
DigitPlacement ==
    /\ (fmt.stage = "returned" /\ fmt.path = "scientific") =>
         /\ fmt.placed = PlaceDigits(MantissaDigits(fmt.mantissa_str),
                                     fmt.exp - Len(FracText(fmt.mantissa_str)))
         /\ NumeralValue(fmt.placed) =
              DecimalValue(FALSE, ToDigits(MantissaDigits(fmt.mantissa_str)),
                           fmt.exp - Len(FracText(fmt.mantissa_str)))
    /\ (fmt.stage = "returned" /\ fmt.num = F64Fin(FALSE, <<1>>, 20)) =>
         fmt.out = <<"1">> \o Repeat("0", 20)
    /\ (fmt.stage = "returned" /\ fmt.num = F64Fin(FALSE, <<1>>, -20)) =>
         fmt.out = <<"0", ".">> \o Repeat("0", 19) \o <<"1">>
    /\ \A text \in PlacementTexts : \A e \in (-MaxShift)..MaxShift :
         /\ SplitMantissaStr(text, e) = PlaceDigits(MantissaDigits(text), e - Len(FracText(text)))
         /\ NumeralValue(SplitMantissaStr(text, e)) =
              DecimalValue(FALSE, ToDigits(MantissaDigits(text)), e - Len(FracText(text)))

\* 2.5e-7 has been placed behind "0." and six zeros
DigitPlacementReached ==
    /\ fmt.stage = "returned"
    /\ fmt.path = "scientific"
    /\ fmt.num = F64Fin(FALSE, <<2, 5>>, -7)
    /\ fmt.mantissa_str = <<"2", ".", "5">>
    /\ fmt.placed = <<"0", ".", "0", "0", "0", "0", "0", "0", "2", "5">>

\* C7: while tokenize runs, its tokens are those of the free operators it has
\* passed: a '+' or '-' right behind 'e'/'E' is part of the pending literal and
\* is no token; every other operator character has first finalized the
\* pending literal, when there is one, as a Number and has then become an
\* Operator (tokenize stops with "Invalid number" when that literal does not
\* parse); 1e-3+2 gives Number, Operator('+'), Number
ExponentSignIsNotAnOperator ==
    /\ tok.status # "ok" =>
         /\ tok.tokens = TokensUpTo(chars, tok.i)
         /\ tok.status = "running" => tok.current_num = PendingRun(chars, tok.i)
    /\ tok.status = "ok" =>
         /\ tok.i = Len(chars)
         /\ tok.tokens = TokensUpTo(chars, tok.i)
              \o (IF PendingRun(chars, tok.i) # <<>>
                  THEN <<Number(ParseF64(PendingRun(chars, tok.i)).val)>> ELSE <<>>)
    /\ (tok.status = "err" /\ tok.i < Len(chars) /\ IsOperatorChar(chars[tok.i + 1])) =>
         /\ FreeOp(chars, tok.i + 1)
         /\ ~ParseF64(PendingRun(chars, tok.i)).ok
         /\ tok.err = ErrMsg("Invalid number: ", PendingRun(chars, tok.i))
    /\ (chars = <<"1", "e", "-", "3", "+", "2">> /\ tok.status = "ok") =>
         tok.tokens = <<Number(F64Fin(FALSE, <<1>>, -3)), Operator("+"), Number(Two)>>

\* 1e-3+2 has been tokenized into three tokens
ExponentSignReached ==
    /\ chars = <<"1", "e", "-", "3", "+", "2">>
    /\ tok.status = "ok"
    /\ Len(tok.tokens) = 3

\* space or tab
IsWhitespace(c) == c = " " \/ c = "\t"

NotWhitespace(c) == ~IsWhitespace(c)

RemoveWhitespace(line) == SelectSeq(line, NotWhitespace)

\* C8: the output is the one the same lines give with all their whitespace
\* removed: whitespace inside a line changes no outcome and causes no
\* "Invalid character" error
WhitespaceIsIgnored ==
    pc # "start" =>
        stdout = Banner \o PrintedForAll([k \in 1..Len(history) |-> RemoveWhitespace(history[k])])

\* C9: trim_trailing_zeros returns a text without a '.' unchanged; what it
\* removes from the end is zeros of the fraction and then the decimal point:
\* the integer digits stay, the result does not end in '.' nor in a '0' of a
\* fraction, and its value is that of the argument; 2.0 is displayed as "2"
TrimKeepsValue ==
    /\ trim.stage = "returned" =>
         /\ ~Contains(trim.s, ".") => trim.out = trim.s
         /\ Len(trim.out) <= Len(trim.s)
         /\ trim.out = SubSeq(trim.s, 1, Len(trim.out))
         /\ \A i \in (Len(trim.out) + 1)..Len(trim.s) :
              /\ trim.s[i] = "0" \/ trim.s[i] = "."
              /\ i >= Find(trim.s, ".")
         /\ IntText(trim.out) = IntText(trim.s)
         /\ Len(trim.out) > 0
         /\ Last(trim.out) # "."
         /\ Contains(trim.out, ".") => Last(trim.out) # "0"
         /\ NumeralValue(trim.out) = NumeralValue(trim.s)
    /\ (trim.stage = "returned" /\ trim.via = "format_regular_number") =>
         (trim.num = Two => trim.out = <<"2">>)

\* the zero of the fraction and the point of 10.0 have been removed, the zero
\* of the integer part kept
TrimReached ==
    /\ trim.stage = "returned"
    /\ trim.s = <<"1", "0", ".", "0">>
    /\ trim.out = <<"1", "0">>

\* C10: in the tokens of tokenize no two Numbers are adjacent: every Number
\* but the first token follows an Operator, and that Operator is the one
\* calculate has pending when it applies the Number
NoAdjacentNumberTokens ==
    /\ \A k \in 2..Len(tok.tokens) :
         tok.tokens[k].type = "Number" =>
            /\ tok.tokens[k - 1].type = "Operator"
            /\ PendingOp(tok.tokens, k - 1) = tok.tokens[k - 1].op

\* 2+3*4 has been tokenized: three Numbers, an Operator between any two
NoAdjacentReached ==
    /\ chars = <<"2", "+", "3", "*", "4">>
    /\ tok.status = "ok"
    /\ Len(tok.tokens) = 5

=============================================================================
